---- MODULE Spec2Model ----
(***************************************************************************)
(* LibVault API (src/main.py): the request handlers that touch the         *)
(* document store, the store adapter they import from `database`, and the  *)
(* MongoDB collections behind it.                                          *)
(*                                                                         *)
(* The `database` module (db, create_document, get_documents) is imported  *)
(* by src/main.py:9 but its source is not part of src/; it is modelled     *)
(* from spec.md section 4.2.  Everything else is translated from           *)
(* src/main.py.                                                            *)
(*                                                                         *)
(* Values.  A Python str is a TLA+ string, except a book/post title and a  *)
(* search query, which are sequences of one-character strings because the  *)
(* search matchers look inside them.  An identifier is a tagged value:     *)
(* [oid |-> n] is the store-native ObjectId, [str |-> "n"] a plain string. *)
(* A document is a record; documents of one collection may have different  *)
(* fields (the store is schemaless).                                       *)
(***************************************************************************)
EXTENDS Integers, Sequences, FiniteSets, TLC

\* ------------------------------------------------------------------ bounds
\* Documents in the whole store (no handler deletes, so the store only grows).
MaxDocs == 6
\* Largest limit tried when get_documents is examined for arbitrary arguments.
MaxLimit == 2

\* -------------------------------------------------------- program constants
SearchLimit == 10
RecommendLimit == 5
InvoiceLimit == 50
ForumLimit == 50
CollectionsShown == 10
RenewDays == 30

VARIABLES
    db,        \* database.db as main.py sees it: None or a store handle
    store,     \* collection name -> documents in natural (insertion) order
    next_id,   \* collection name -> the next ObjectId the store generates
    created,   \* history: collection -> the create_document calls that succeeded
    last,      \* history: the handler that produced resp, its input, its store accesses
    resp,      \* the HTTP response of the request being served, NoResp when idle
    thr        \* worker thread -> its position in a handler (concurrent serving)

vars == <<db, store, next_id, created, last, resp, thr>>

None == "None"
Mongo == "Mongo"

Collections == {"book", "forumpost", "invoice", "subscription"}
\* Collection names in the order list_collection_names reports them.
CollectionOrder == <<"book", "forumpost", "invoice", "subscription">>

Threads == {"w1", "w2"}

\* ------------------------------------------------------------ Python values
ObjectId(n) == [oid |-> n]
PyStr(s) == [str |-> s]
IsObjectId(v) == DOMAIN v = {"oid"}
IsPlainString(v) == DOMAIN v = {"str"}

\* str(x) of an identifier: an ObjectId prints as its digits, a str is itself.
str(v) == IF IsObjectId(v) THEN PyStr(ToString(v.oid)) ELSE v

\* Python truthiness of an Optional[str] query parameter: None and "" are falsy.
Truthy(s) == s # None /\ s # ""

\* `if db` in the handlers: None is falsy, a store handle is taken to be
\* truthy like any object that defines no truth value of its own.
db_truthy(d) == d # None

Range(s) == {s[i] : i \in DOMAIN s}

RECURSIVE Take(_, _)
Take(s, n) == IF n <= 0 \/ s = <<>> THEN <<>> ELSE <<Head(s)>> \o Take(Tail(s), n - 1)

RECURSIVE SumLen(_, _)
SumLen(st, cs) ==
    IF cs = {} THEN 0
    ELSE LET c == CHOOSE x \in cs : TRUE IN Len(st[c]) + SumLen(st, cs \ {c})

TotalDocs(st) == SumLen(st, Collections)

\* ------------------------------------------------------------ text matching
Lower(ch) ==
    CASE ch = "D" -> "d"
      [] ch = "U" -> "u"
      [] ch = "A" -> "a"
      [] OTHER -> ch

LowerAll(s) == [i \in DOMAIN s |-> Lower(s[i])]

IsLetter(ch) == Lower(ch) \in {"d", "u", "a"}

\* PCRE compiles the pattern first: unbalanced parentheses are an error.
RECURSIVE ParenDepthOk(_, _)
ParenDepthOk(p, depth) ==
    IF p = <<>> THEN depth = 0
    ELSE IF Head(p) = "(" THEN ParenDepthOk(Tail(p), depth + 1)
    ELSE IF Head(p) = ")" THEN depth > 0 /\ ParenDepthOk(Tail(p), depth - 1)
    ELSE ParenDepthOk(Tail(p), depth)

RegexValid(p) == ParenDepthOk(p, 0)

\* Pattern p (already valid) matches text t from its first character on.
\* "." is any character, parentheses group and consume nothing, anything
\* else is a literal compared without case ($options "i").
RECURSIVE RegexMatchHere(_, _)
RegexMatchHere(p, t) ==
    IF p = <<>> THEN TRUE
    ELSE IF Head(p) \in {"(", ")"} THEN RegexMatchHere(Tail(p), t)
    ELSE IF t = <<>> THEN FALSE
    ELSE /\ (Head(p) = "." \/ Lower(Head(p)) = Lower(Head(t)))
         /\ RegexMatchHere(Tail(p), Tail(t))

\* $regex is unanchored: the pattern may match at any position.
RegexSearch(p, t) ==
    \E k \in 0..Len(t) : RegexMatchHere(p, SubSeq(t, k + 1, Len(t)))

\* Case-insensitive substring test (what an escaped pattern would compute).
ContainsIgnoreCase(t, q) ==
    \E k \in 0..(Len(t) - Len(q)) :
        LowerAll(SubSeq(t, k + 1, k + Len(q))) = LowerAll(q)

\* $text tokenises the search string: punctuation separates words and is
\* dropped; a one-word title matches when it equals a word of the search.
SearchWord(q) == LowerAll(SelectSeq(q, IsLetter))

TextMatch(doc, q) ==
    /\ "title" \in DOMAIN doc
    /\ SearchWord(q) # <<>>
    /\ SearchWord(q) = LowerAll(doc.title)

\* --------------------------------------------------------------- the store
\* The type of the values a field holds.
FieldType(f) ==
    CASE f = "tags" -> "arr"
      [] f = "available" -> "bool"
      [] f = "title" -> "chars"
      [] f \in {"amount", "renews_at"} -> "int"
      [] f = "_id" -> "oid"
      [] OTHER -> "str"

\* One constraint of a query document.  {"f": v} is an equality constraint
\* whose value field is named after v's type; {"f": {"$regex": p,
\* "$options": "i"}} and {"$text": {"$search": q}} are the two operators
\* main.py uses.
EqStr(f, s) == [field |-> f, s |-> s]
EqBool(f, b) == [field |-> f, b |-> b]
EqChars(f, t) == [field |-> f, chars |-> t]
EqInt(f, n) == [field |-> f, n |-> n]
EqArr(f, a) == [field |-> f, arr |-> a]
Regex(f, p) == [field |-> f, regex |-> p, options |-> "i"]
Text(q) == [text |-> q]

IsText(con) == "text" \in DOMAIN con
IsRegex(con) == "regex" \in DOMAIN con

\* Does the document satisfy one constraint?  A document without the field
\* satisfies no constraint on it.  A string compared with an array field
\* matches when the array has it as an element.
Matches(doc, con) ==
    IF IsText(con) THEN TextMatch(doc, con.text)
    ELSE /\ con.field \in DOMAIN doc
         /\ LET t == FieldType(con.field)
                v == doc[con.field]
            IN  CASE IsRegex(con) -> t = "chars" /\ RegexSearch(con.regex, v)
                  [] "s" \in DOMAIN con ->
                        \/ t = "str" /\ v = con.s
                        \/ t = "arr" /\ con.s \in Range(v)
                  [] "b" \in DOMAIN con -> t = "bool" /\ v = con.b
                  [] "chars" \in DOMAIN con -> t = "chars" /\ v = con.chars
                  [] "n" \in DOMAIN con -> t = "int" /\ v = con.n
                  [] "arr" \in DOMAIN con -> t = "arr" /\ v = con.arr
                  [] OTHER -> FALSE

\* A filter is a sequence of constraints, all of which must hold.
MatchesAll(doc, filt) == \A i \in DOMAIN filt : Matches(doc, filt[i])

\* The documents of a collection that satisfy the filter, in natural order.
FindAll(docs, filt) == SelectSeq(docs, LAMBDA d : MatchesAll(d, filt))

\* The subsequences of s with exactly k elements.
RECURSIVE SubSeqsOfLen(_, _)
SubSeqsOfLen(s, k) ==
    IF k = 0 THEN {<<>>}
    ELSE IF Len(s) < k THEN {}
    ELSE {<<Head(s)>> \o r : r \in SubSeqsOfLen(Tail(s), k - 1)}
         \cup SubSeqsOfLen(Tail(s), k)

\* What a query without a sort may return under a limit: the store
\* guarantees no order, so any `limit` of the matching documents (listed
\* here in natural order; nothing below depends on the order inside a
\* result).
Limited(matching, limit) ==
    IF Len(matching) <= limit THEN {matching}
    ELSE SubSeqsOfLen(matching, limit)

\* cursor.limit(n): MongoDB reads a limit of 0 as no limit.
CursorLimit(matching, n) ==
    IF n = 0 THEN {matching} ELSE Limited(matching, n)

\* The outcome of a call into the store: err is "none" or the error raised.
Ok(docs) == [err |-> "none", docs |-> docs]
Raised(e) == [err |-> e, docs |-> <<>>]

\* db[c].find(filt).limit(n), consumed by list(...).  A $text query needs a
\* text index and an invalid $regex pattern does not compile: both raise
\* OperationFailure.  A collection never written is empty.
db_find(st, c, filt, limit, text_index) ==
    IF \E i \in DOMAIN filt : IsText(filt[i]) /\ ~text_index
        THEN {Raised("OperationFailure")}
    ELSE IF \E i \in DOMAIN filt : IsRegex(filt[i]) /\ ~RegexValid(filt[i].regex)
        THEN {Raised("OperationFailure")}
    ELSE {Ok(r) : r \in CursorLimit(FindAll(st[c], filt), limit)}

\* insert_one: the store generates the identifier and appends the document
\* whole (document-level atomicity).
insert_one(st, ids, c, data) ==
    [store |-> [st EXCEPT ![c] = Append(@, [_id |-> ObjectId(ids[c])] @@ data)],
     next_id |-> [ids EXCEPT ![c] = @ + 1],
     inserted_id |-> ObjectId(ids[c])]

\* db.list_collection_names(): the collections that hold a document.
list_collection_names(st) ==
    SelectSeq(CollectionOrder, LAMBDA c : st[c] # <<>>)

\* ------------------------------------------------- the adapter (`database`)
\* create_document that persists the record but never advances the
\* identifier generator.
create_document_stale_generator(d, st, ids, c, data) ==
    IF c = "" THEN [err |-> "InvalidArgument"]
    ELSE IF d = None THEN [err |-> "StoreUnavailable"]
    ELSE LET r == insert_one(st, ids, c, data)
         IN  [err |-> "none", id |-> str(r.inserted_id),
              store |-> r.store, next_id |-> ids]

\* create_document whose write is visible before the last field is in.
create_document_torn(d, st, ids, c, data) ==
    IF c = "" THEN [err |-> "InvalidArgument"]
    ELSE IF d = None THEN [err |-> "StoreUnavailable"]
    ELSE LET part == [f \in DOMAIN data \ {"tags"} |-> data[f]]
             r == insert_one(st, ids, c, part)
         IN  [err |-> "none", id |-> str(r.inserted_id),
              store |-> r.store, next_id |-> r.next_id]

\* create_document(collection, data) -> identifier string.
\* Fails with StoreUnavailable when no store is configured and with
\* InvalidArgument on an empty collection name; otherwise persists one new
\* record with a fresh identifier and returns that identifier as a string.
\* The caller's mapping is left as it was.
create_document(d, st, ids, c, data) ==
    IF c = "" THEN [err |-> "InvalidArgument"]
    ELSE IF d = None THEN [err |-> "StoreUnavailable"]
    ELSE LET r == insert_one(st, ids, c, data)
         IN  [err |-> "none", id |-> str(r.inserted_id),
              store |-> r.store, next_id |-> r.next_id]

\* get_documents(collection, filter, limit) -> the possible results.
\* Fails with StoreUnavailable when no store is configured; otherwise at
\* most `limit` of the records matching every constraint, in no guaranteed
\* order, identifiers still in the store's native type.
get_documents(d, st, c, filt, limit) ==
    IF d = None THEN {Raised("StoreUnavailable")}
    ELSE {Ok(r) : r \in Limited(FindAll(st[c], filt), limit)}

\* --------------------------------------------------------------- responses
NoResp == [status |-> 0]
NoCall == [op |-> "none"]
Response(body) == [status |-> 200, body |-> body]
\* An exception that leaves a handler is answered 500 by the framework.
ServerError(e) == [status |-> 500, error |-> e]

Call(op, arg, access) == [op |-> op, arg |-> arg, access |-> access]

\* for r in results: r["_id"] = str(r["_id"])
Normalize(docs) == [i \in DOMAIN docs |-> [docs[i] EXCEPT !._id = str(@)]]

\* The normalisation loop left out.
NormalizeIfPresent_skipped(docs) == docs

\* for r in items: if "_id" in r: r["_id"] = str(r["_id"])
NormalizeIfPresent(docs) ==
    [i \in DOMAIN docs |->
        IF "_id" \in DOMAIN docs[i] THEN [docs[i] EXCEPT !._id = str(@)]
        ELSE docs[i]]

\* ------------------------------------------------------------------ inputs
UserIds == {"u1", "u2"}
\* An Optional[str] query parameter: absent, empty, or a value.
UserIdParams == {None, ""} \cup UserIds
TagParams == {None, "t1", "t2"}
Queries == {<<"d">>, <<"D", "u">>, <<".">>, <<"(">>}
\* datetime.utcnow(), in days.
Times == {0}

\* JSON bodies of POST /api/community/forums, with and without "tags".
ForumBodies ==
    {[user_id |-> "u1", title |-> <<"a">>, content |-> "hi"],
     [user_id |-> "u1", title |-> <<"a">>, content |-> "hi", tags |-> <<"t1">>]}

\* JSON bodies of POST /api/billing/subscriptions, with and without "plan".
SubscriptionBodies == {[user_id |-> "u1"], [user_id |-> "u1", plan |-> "free"]}

\* The request models fill in the declared defaults of the fields left out.
ForumPostIn(body) == body @@ [tags |-> <<>>]
SubscriptionRequest(body) == body @@ [plan |-> "pro"]

\* Documents the database viewer writes into the collections no handler of
\* main.py writes (Book, Invoice of schemas.py); the store checks no schema.
ViewerDocs(c) ==
    IF c = "book"
        THEN {[title |-> <<"D", "u">>, available |-> TRUE],
              [title |-> <<"a">>, available |-> FALSE]}
    ELSE {[user_id |-> "u1", amount |-> 10], [amount |-> 10]}

ViewerCollections == {"book", "invoice"}

\* ------------------------------------------------------------ the handlers
Idle == resp = NoResp
AllIdle == \A t \in Threads : thr[t].pc = "idle"

\* The server answers one request at a time in Spec: a handler runs to its
\* return statement as one step.  (Each handler makes its store calls one
\* after the other and keeps everything else in locals.)

\* POST /api/ai/search: the results and the store accesses made for them.
ai_search_results(d, st, query, text_index) ==
    IF ~db_truthy(d) THEN {[err |-> "none", docs |-> <<>>, access |-> <<>>]}
    ELSE UNION {
        IF o.err = "none"
            THEN {[err |-> "none", docs |-> o.docs, access |-> <<"db.find">>]}
        ELSE {[err |-> f.err, docs |-> f.docs, access |-> <<"db.find", "db.find">>] :
                f \in db_find(st, "book", <<Regex("title", query)>>, SearchLimit,
                              text_index)} :
        o \in db_find(st, "book", <<Text(query)>>, SearchLimit, text_index)}

ai_search(query, text_index) ==
    /\ Idle
    /\ \E out \in ai_search_results(db, store, query, text_index) :
        /\ resp' = IF out.err # "none" THEN ServerError(out.err)
                   ELSE Response([query |-> query, results |-> Normalize(out.docs)])
        /\ last' = Call("ai_search", [query |-> query, text_index |-> text_index],
                        out.access)
    /\ UNCHANGED <<db, store, next_id, created, thr>>

\* The adapter called without the `if db` guard.
guarded_get_unguarded(d, st, c, filt, limit) ==
    {[err |-> o.err, docs |-> o.docs, access |-> <<"get_documents">>] :
        o \in get_documents(d, st, c, filt, limit)}

\* A read handler's call into the adapter: `get_documents(...) if db else []`.
guarded_get(d, st, c, filt, limit) ==
    IF db_truthy(d)
        THEN {[err |-> o.err, docs |-> o.docs, access |-> <<"get_documents">>] :
                o \in get_documents(d, st, c, filt, limit)}
    ELSE {[err |-> "none", docs |-> <<>>, access |-> <<>>]}

\* ai_recommend asking for a page of 50 like the list handlers.
ai_recommend_items_page(d, st) ==
    guarded_get(d, st, "book", <<EqBool("available", TRUE)>>, InvoiceLimit)

\* POST /api/ai/recommend
ai_recommend_items(d, st) ==
    guarded_get(d, st, "book", <<EqBool("available", TRUE)>>, RecommendLimit)

ai_recommend_body(user_id, items) ==
    [user_id |-> user_id, recommendations |-> NormalizeIfPresent(items)]

ai_recommend(user_id) ==
    /\ Idle
    /\ \E out \in ai_recommend_items(db, store) :
        /\ resp' = IF out.err # "none" THEN ServerError(out.err)
                   ELSE Response(ai_recommend_body(user_id, out.docs))
        /\ last' = Call("ai_recommend", [user_id |-> user_id], out.access)
    /\ UNCHANGED <<db, store, next_id, created, thr>>

\* list_invoices that forgets its user_id parameter.
invoice_filter_dropped(user_id) == <<>>

\* GET /api/billing/invoices
invoice_filter(user_id) ==
    IF Truthy(user_id) THEN <<EqStr("user_id", user_id)>> ELSE <<>>

list_invoices_docs(d, st, user_id) ==
    guarded_get(d, st, "invoice", invoice_filter(user_id), InvoiceLimit)

list_invoices(user_id) ==
    /\ Idle
    /\ \E out \in list_invoices_docs(db, store, user_id) :
        /\ resp' = IF out.err # "none" THEN ServerError(out.err)
                   ELSE Response([invoices |-> NormalizeIfPresent(out.docs)])
        /\ last' = Call("list_invoices", [user_id |-> user_id], out.access)
    /\ UNCHANGED <<db, store, next_id, created, thr>>

\* GET /api/community/forums
forum_filter(tag) ==
    IF Truthy(tag) THEN <<EqStr("tags", tag)>> ELSE <<>>

list_forum_posts_docs(d, st, tag) ==
    guarded_get(d, st, "forumpost", forum_filter(tag), ForumLimit)

list_forum_posts_body(posts) == [posts |-> NormalizeIfPresent(posts)]

list_forum_posts(tag) ==
    /\ Idle
    /\ \E out \in list_forum_posts_docs(db, store, tag) :
        /\ resp' = IF out.err # "none" THEN ServerError(out.err)
                   ELSE Response(list_forum_posts_body(out.docs))
        /\ last' = Call("list_forum_posts", [tag |-> tag], out.access)
    /\ UNCHANGED <<db, store, next_id, created, thr>>

\* A successful create_document call, as the history records it.
Created(id, data) == [id |-> id, data |-> data]

\* Room for one more document (the model's bound, not the program's).
Room == TotalDocs(store) < MaxDocs

\* POST /api/billing/subscriptions
subscription_doc(payload, now) ==
    [user_id |-> payload.user_id, plan |-> payload.plan, status |-> "active",
     renews_at |-> now + RenewDays]

\* {"id": sub_id, **sub}
create_subscription_body(sub_id, sub) == sub @@ [id |-> sub_id]

create_subscription(body, now) ==
    LET payload == SubscriptionRequest(body)
        sub == subscription_doc(payload, now)
        r == create_document(db, store, next_id, "subscription", sub)
    IN  /\ Idle
        /\ db # None => Room
        /\ IF r.err # "none"
              THEN /\ resp' = ServerError(r.err)
                   /\ UNCHANGED <<store, next_id, created>>
           ELSE /\ store' = r.store
                /\ next_id' = r.next_id
                /\ created' = [created EXCEPT
                                 !["subscription"] = Append(@, Created(r.id, sub))]
                /\ resp' = Response(create_subscription_body(r.id, sub))
        /\ last' = Call("create_subscription", payload, <<"create_document">>)
        /\ UNCHANGED <<db, thr>>

\* POST /api/community/forums
\* payload.dict(exclude_defaults=True): an empty tags list is not stored.
create_forum_post_doc_exclude_defaults(payload) ==
    IF payload.tags = <<>>
        THEN [f \in DOMAIN payload \ {"tags"} |-> payload[f]]
    ELSE payload

\* payload.dict(), the mapping handed to create_document
create_forum_post_doc(payload) == payload

\* {"id": post_id, **payload.dict()}
create_forum_post_body(post_id, payload) == payload @@ [id |-> post_id]

create_forum_post(body) ==
    LET payload == ForumPostIn(body)
        doc == create_forum_post_doc(payload)
        r == create_document(db, store, next_id, "forumpost", doc)
    IN  /\ Idle
        /\ db # None => Room
        /\ IF r.err # "none"
              THEN /\ resp' = ServerError(r.err)
                   /\ UNCHANGED <<store, next_id, created>>
           ELSE /\ store' = r.store
                /\ next_id' = r.next_id
                /\ created' = [created EXCEPT
                                 !["forumpost"] = Append(@, Created(r.id, doc))]
                /\ resp' = Response(create_forum_post_body(r.id, payload))
        /\ last' = Call("create_forum_post", payload, <<"create_document">>)
        /\ UNCHANGED <<db, thr>>

\* GET /test
test_database_body(d, st, url_set, name_set) ==
    [backend |-> "Running",
     database |-> IF d # None THEN "Connected & Working"
                  ELSE "Available but not initialized",
     database_url |-> IF url_set THEN "Set" ELSE "Not Set",
     database_name |-> IF name_set THEN "Set" ELSE "Not Set",
     connection_status |-> IF d # None THEN "Connected" ELSE "Not Connected",
     collections |-> IF d # None
                        THEN Take(list_collection_names(st), CollectionsShown)
                     ELSE <<>>]

test_database(url_set, name_set) ==
    /\ Idle
    /\ resp' = Response(test_database_body(db, store, url_set, name_set))
    /\ last' = Call("test_database", [url_set |-> url_set, name_set |-> name_set],
                    IF db # None THEN <<"db.list_collection_names">> ELSE <<>>)
    /\ UNCHANGED <<db, store, next_id, created, thr>>

\* The framework sends the response; the server is ready for the next request.
Deliver ==
    /\ ~Idle
    /\ resp' = NoResp
    /\ last' = NoCall
    /\ UNCHANGED <<db, store, next_id, created, thr>>

\* The database viewer inserts a document straight into the store.
viewer_insert(c, doc) ==
    LET r == insert_one(store, next_id, c, doc)
    IN  /\ Idle
        /\ AllIdle
        /\ Room
        /\ store' = r.store
        /\ next_id' = r.next_id
        /\ UNCHANGED <<db, created, last, resp, thr>>

\* ----------------------------------------------------------- specification
Init ==
    /\ db \in {None, Mongo}
    /\ store = [c \in Collections |-> <<>>]
    /\ next_id = [c \in Collections |-> 1]
    /\ created = [c \in Collections |-> <<>>]
    /\ last = NoCall
    /\ resp = NoResp
    /\ thr = [t \in Threads |-> [pc |-> "idle"]]

Next ==
    \/ \E q \in Queries, ti \in BOOLEAN : ai_search(q, ti)
    \/ \E u \in UserIds : ai_recommend(u)
    \/ \E u \in UserIdParams : list_invoices(u)
    \/ \E tg \in TagParams : list_forum_posts(tg)
    \/ \E p \in SubscriptionBodies, now \in Times : create_subscription(p, now)
    \/ \E p \in ForumBodies : create_forum_post(p)
    \/ \E us \in BOOLEAN, ns \in BOOLEAN : test_database(us, ns)
    \/ \E c \in ViewerCollections : \E doc \in ViewerDocs(c) : viewer_insert(c, doc)
    \/ Deliver

Spec == Init /\ [][Next]_vars

\* ------------------------------------------------------ concurrent serving
\* FastAPI runs the (non-async) handlers on a pool of worker threads, so two
\* requests overlap.  A worker is between the handler's store call and its
\* return statement at pc "created" / "listed"; the store call itself is
\* one step of the store.
w_create_forum_post_call(t, body) ==
    LET payload == ForumPostIn(body)
        doc == create_forum_post_doc(payload)
        r == create_document(db, store, next_id, "forumpost", doc)
    IN  /\ thr[t].pc = "idle"
        /\ Room
        /\ r.err = "none"
        /\ store' = r.store
        /\ next_id' = r.next_id
        /\ created' = [created EXCEPT
                         !["forumpost"] = Append(@, Created(r.id, doc))]
        /\ thr' = [thr EXCEPT ![t] = [pc |-> "created", payload |-> payload,
                                      post_id |-> r.id]]
        /\ UNCHANGED <<db, last, resp>>

w_create_forum_post_return(t) ==
    /\ thr[t].pc = "created"
    /\ thr' = [thr EXCEPT ![t] = [pc |-> "idle"]]
    /\ UNCHANGED <<db, store, next_id, created, last, resp>>

w_list_forum_posts_call(t, tag) ==
    /\ thr[t].pc = "idle"
    /\ \E out \in list_forum_posts_docs(db, store, tag) :
        /\ out.err = "none"
        /\ thr' = [thr EXCEPT ![t] = [pc |-> "listed", tag |-> tag,
                                      posts |-> out.docs]]
    /\ UNCHANGED <<db, store, next_id, created, last, resp>>

w_list_forum_posts_return(t) ==
    /\ thr[t].pc = "listed"
    /\ thr' = [thr EXCEPT ![t] = [pc |-> "idle"]]
    /\ UNCHANGED <<db, store, next_id, created, last, resp>>

InitConc ==
    /\ db = Mongo
    /\ store = [c \in Collections |-> <<>>]
    /\ next_id = [c \in Collections |-> 1]
    /\ created = [c \in Collections |-> <<>>]
    /\ last = NoCall
    /\ resp = NoResp
    /\ thr = [t \in Threads |-> [pc |-> "idle"]]

NextConc ==
    \/ \E t \in Threads, p \in ForumBodies : w_create_forum_post_call(t, p)
    \/ \E t \in Threads : w_create_forum_post_return(t)
    \/ \E t \in Threads, tg \in TagParams : w_list_forum_posts_call(t, tg)
    \/ \E t \in Threads : w_list_forum_posts_return(t)

SpecConc == InitConc /\ [][NextConc]_vars

\* ================================================================== claims
CreateOps == {"create_subscription", "create_forum_post"}
ReadOps == {"ai_search", "ai_recommend", "list_invoices", "list_forum_posts"}

CollectionOf(op) ==
    IF op = "create_subscription" THEN "subscription" ELSE "forumpost"

Answered(op) == last.op = op /\ resp.status = 200

\* The list of records a read handler's response carries.
Listed ==
    CASE last.op = "ai_search" -> resp.body.results
      [] last.op = "ai_recommend" -> resp.body.recommendations
      [] last.op = "list_invoices" -> resp.body.invoices
      [] last.op = "list_forum_posts" -> resp.body.posts

\* Filters and limits get_documents is examined with.
SampleFilters ==
    {<<>>,
     <<EqBool("available", TRUE)>>,
     <<EqStr("user_id", "u1")>>,
     <<EqStr("user_id", "u2")>>,
     <<EqStr("tags", "t1")>>,
     <<EqStr("user_id", "u1"), EqStr("tags", "t1")>>}

SampleLimits == (0..MaxLimit) \cup {RecommendLimit, SearchLimit, InvoiceLimit}

\* Equality of one field as the claims read it, written without the store's
\* matcher: the field is there and holds the value (or, for the tags array,
\* has it as an element).
Satisfies(doc, con) ==
    /\ con.field \in DOMAIN doc
    /\ IF "b" \in DOMAIN con THEN doc[con.field] = con.b
       ELSE IF con.field = "tags" THEN \E i \in DOMAIN doc.tags : doc.tags[i] = con.s
       ELSE doc[con.field] = con.s

\* ---- C1
\* C1: every identifier create_document returns differs from every
\* identifier it returned before on the same collection, also when the same
\* data is submitted again; each call adds one record, and the handler
\* answers with the identifier of the record just created.
C1_FreshIdentifiers ==
    /\ \A c \in Collections : \A i, j \in DOMAIN created[c] :
          i # j => created[c][i].id # created[c][j].id
    /\ \A c \in {"subscription", "forumpost"} : Len(store[c]) = Len(created[c])
    /\ \A op \in CreateOps : Answered(op) =>
          LET log == created[CollectionOf(op)]
          IN  /\ log # <<>>
              /\ resp.body.id = log[Len(log)].id
              /\ \A i \in 1..(Len(log) - 1) : log[i].id # resp.body.id

\* A retry: the same forum post submitted twice, both calls answered.
C1_Witness ==
    /\ Answered("create_forum_post")
    /\ \E i, j \in DOMAIN created["forumpost"] :
          /\ i < j
          /\ created["forumpost"][i].data = created["forumpost"][j].data
    /\ Len(created["subscription"]) >= 2

\* ---- C2
\* The filter made of exactly the fields of the record a create handler
\* answered with (everything in the response but the identifier).
ExactFilter(op, body) ==
    IF op = "create_forum_post"
        THEN <<EqStr("user_id", body.user_id), EqChars("title", body.title),
               EqStr("content", body.content), EqArr("tags", body.tags)>>
    ELSE <<EqStr("user_id", body.user_id), EqStr("plan", body.plan),
           EqStr("status", body.status), EqInt("renews_at", body.renews_at)>>

HasId(docs, id) == \E i \in DOMAIN docs : str(docs[i]._id) = id

MatchCount(op) ==
    Len(FindAll(store[CollectionOf(op)], ExactFilter(op, resp.body)))

\* C2 as stated (for any limit of at least 1): right after a create, every
\* get_documents with the record's own fields as filter returns the record.
C2_ReadYourWrite_AnyLimit ==
    \A op \in CreateOps : Answered(op) =>
        \A n \in 1..MaxLimit :
            \A out \in get_documents(db, store, CollectionOf(op),
                                     ExactFilter(op, resp.body), n) :
                out.err = "none" /\ HasId(out.docs, resp.body.id)

\* C2 amended: right after a create, every get_documents with the record's
\* own fields as filter and a limit not below the number of records that
\* match the filter returns the record with the identifier just returned.
C2_ReadYourWrite_EnoughLimit ==
    \A op \in CreateOps : Answered(op) =>
        \A n \in SampleLimits : n >= MatchCount(op) =>
            \A out \in get_documents(db, store, CollectionOf(op),
                                     ExactFilter(op, resp.body), n) :
                out.err = "none" /\ HasId(out.docs, resp.body.id)

\* A post without tags created when the same post is already stored.
C2_Witness ==
    /\ Answered("create_forum_post")
    /\ resp.body.tags = <<>>
    /\ MatchCount("create_forum_post") = 2

C4_GetDocumentsFilters ==
    Idle => \A c \in Collections, filt \in SampleFilters, n \in SampleLimits :
        \A out \in get_documents(db, store, c, filt, n) :
            /\ db # None => out.err = "none"
            /\ \A i \in DOMAIN out.docs :
                  /\ out.docs[i] \in Range(store[c])
                  /\ \A k \in DOMAIN filt : Satisfies(out.docs[i], filt[k])
            /\ (~\E d \in Range(store[c]) :
                    \A k \in DOMAIN filt : Satisfies(d, filt[k]))
                  => out.docs = <<>>

OwnInvoicesOnly ==
    \A i \in DOMAIN resp.body.invoices :
        /\ "user_id" \in DOMAIN resp.body.invoices[i]
        /\ resp.body.invoices[i].user_id = last.arg.user_id

\* C4 as stated: the above, and list_invoices(user_id=u) returns no invoice
\* without a user_id or with another user_id, for every u given.
C4_FilterAllGiven ==
    /\ C4_GetDocumentsFilters
    /\ (Answered("list_invoices") /\ last.arg.user_id # None) => OwnInvoicesOnly

\* C4 amended: the above, and list_invoices(user_id=u) returns no invoice
\* without a user_id or with another user_id, for every non-empty u.
C4_FilterNonEmpty ==
    /\ C4_GetDocumentsFilters
    /\ (Answered("list_invoices") /\ Truthy(last.arg.user_id)) => OwnInvoicesOnly

\* u1 asks for invoices; the store holds one of u1 and one without user_id.
C4_Witness ==
    /\ Answered("list_invoices")
    /\ last.arg.user_id = "u1"
    /\ resp.body.invoices # <<>>
    /\ \E i \in DOMAIN store["invoice"] : "user_id" \notin DOMAIN store["invoice"][i]

\* ---- C5
IdsPlain(docs) ==
    \A i \in DOMAIN docs :
        /\ "_id" \in DOMAIN docs[i] => IsPlainString(docs[i]._id)
        /\ "id" \in DOMAIN docs[i] => IsPlainString(docs[i].id)

\* C5: every identifier in a response of ai_search, ai_recommend,
\* list_invoices, list_forum_posts, create_subscription and
\* create_forum_post is a plain string, never a store-native identifier.
C5_PlainStringIdentifiers ==
    /\ \A op \in ReadOps : Answered(op) => IdsPlain(Listed)
    /\ \A op \in CreateOps : Answered(op) => IdsPlain(<<resp.body>>)

\* ai_recommend answers with stored books.
C5_Witness ==
    /\ Answered("ai_recommend")
    /\ resp.body.recommendations # <<>>
    /\ \A i \in DOMAIN store["book"] : IsObjectId(store["book"][i]._id)

\* ---- C6
\* A record as the store holds it when all of the created fields are in.
Complete(entry, doc) ==
    /\ DOMAIN doc = DOMAIN entry.data \cup {"_id"}
    /\ str(doc._id) = entry.id
    /\ \A f \in DOMAIN entry.data : doc[f] = entry.data[f]

\* C6: with create and list requests of two workers interleaved in any
\* order, every record a get_documents call returned is a created record
\* with all of its fields, and every create that has returned is persisted
\* as one complete record of its own.
C6_NoPartialRecords ==
    /\ \A t \in Threads : thr[t].pc = "listed" =>
          \A i \in DOMAIN thr[t].posts :
              \E k \in DOMAIN created["forumpost"] :
                  Complete(created["forumpost"][k], thr[t].posts[i])
    /\ \A k \in DOMAIN created["forumpost"] :
          Cardinality({i \in DOMAIN store["forumpost"] :
                          str(store["forumpost"][i]._id) = created["forumpost"][k].id}) = 1
    /\ \A k \in DOMAIN created["forumpost"] :
          \E i \in DOMAIN store["forumpost"] :
              Complete(created["forumpost"][k], store["forumpost"][i])
    /\ \A t, u \in Threads :
          (t # u /\ thr[t].pc = "created" /\ thr[u].pc = "created")
              => thr[t].post_id # thr[u].post_id

\* Both workers are inside create_forum_post at once.
C6_WitnessCreates ==
    \A t \in Threads : thr[t].pc = "created"

\* One worker is still inside create_forum_post while the other's list
\* already shows its record.
C6_Witness ==
    /\ thr["w1"].pc = "created"
    /\ thr["w2"].pc = "listed"
    /\ HasId(thr["w2"].posts, thr["w1"].post_id)
    /\ Len(store["forumpost"]) >= 2

\* ---- C7
\* C7: every store access of a handler goes through create_document or
\* get_documents.
C7_AdapterOnly ==
    last.op # "none" =>
        \A i \in DOMAIN last.access :
            last.access[i] \in {"create_document", "get_documents"}

\* ---- C8
\* The books whose title contains the query, case ignored.
SubstringMatches(query) ==
    {str(d._id) : d \in {b \in Range(store["book"]) :
        "title" \in DOMAIN b /\ ContainsIgnoreCase(b.title, query)}}

\* C8: when the store does not support the full-text query, ai_search
\* still answers {query, results}, with at most 10 records and string
\* identifiers, the records being the case-insensitive substring matches
\* on title.
C8_FallbackTransparent ==
    (last.op = "ai_search" /\ db # None /\ ~last.arg.text_index) =>
        /\ resp.status = 200
        /\ DOMAIN resp.body = {"query", "results"}
        /\ resp.body.query = last.arg.query
        /\ Len(resp.body.results) <= SearchLimit
        /\ IdsPlain(resp.body.results)
        /\ {resp.body.results[i]._id : i \in DOMAIN resp.body.results}
              = SubstringMatches(last.arg.query)

\* ---- C9
\* C9: with no store configured, ai_search, ai_recommend, list_invoices and
\* list_forum_posts answer 200 with an empty list, make no store access and
\* leave the store as it was.
C9_NoStoreEmptyReads ==
    [][(db = None /\ last'.op \in ReadOps) =>
          /\ resp'.status = 200
          /\ Listed' = <<>>
          /\ last'.access = <<>>
          /\ store' = store
          /\ next_id' = next_id]_vars

\* list_invoices answered without a store while the database holds invoices.
C9_Witness ==
    /\ db = None
    /\ Answered("list_invoices")
    /\ store["invoice"] # <<>>

\* ---- C10
\* The identifiers of the (up to) n available books inserted last.
MostRecentAvailable(n) ==
    LET avail == FindAll(store["book"], <<EqBool("available", TRUE)>>)
        from == IF Len(avail) > n THEN Len(avail) - n + 1 ELSE 1
    IN  {str(avail[i]._id) : i \in from..Len(avail)}

\* C10: ai_recommend answers with the (up to 5) most recently added
\* available books.
C10_MostRecentFive ==
    Answered("ai_recommend") /\ db # None =>
        {resp.body.recommendations[i]._id : i \in DOMAIN resp.body.recommendations}
            = MostRecentAvailable(RecommendLimit)
====
